---- MODULE Spec2Model ----
(***************************************************************************)
(* TimeZZ Trello Power-Up: the timer lifecycle of the two full variants    *)
(* of the plugin,                                                          *)
(*   "frontend" : src/frontend/trello-powerup.js                           *)
(*   "powerup"  : src/trello-powerup/trello-powerup.js                     *)
(* One board, its cards, the host's shared per-card key timezz_timer, and  *)
(* browser sessions whose card-buttons callbacks run TimerManager's        *)
(* startTimer / stopTimer.  Every await of the source is one step: store   *)
(* operations of different sessions interleave between the steps.          *)
(***************************************************************************)
EXTENDS Integers, Sequences, FiniteSets, TLC

\* ------------------------------------------------------------------ bounds
NumCards == 3
MaxTime == 1

Cards == 1..NumCards
Sessions == {"s1", "s2"}
Variants == {"frontend", "powerup"}

\* ------------------------------------------------------------------- state
VARIABLES
  variant,  \* which file's code the board runs
  live,     \* the sessions that are open on the board
  faulty,   \* whether the host's store calls may reject
  store,    \* card -> the shared timezz_timer value of the card (None: no key)
  token,    \* session -> whether member/private timezz_auth_token is set
  now,      \* wall-clock time, in seconds
  pc,       \* session -> the await its running callback is suspended at
  btn,      \* session -> the timer button on screen and its closure
  loc,      \* session -> the locals of the running startTimer / stopTimer
  ret,      \* session -> what startTimer / stopTimer gave its callback
  synced,   \* the cards whose stored record the backend acknowledged
            \* (its /time/start got a 2xx answer)
  tally     \* a test's count of the calls made so far (see Count)

vars == <<variant, live, faulty, store, token, now, pc, btn, loc, ret, synced, tally>>

\* An optional value: <<>> (undefined) or <<v>>.
None == <<>>
Some(v) == <<v>>

\* The timezz_timer object literal: frontend l.107-113, powerup l.77-82, l.99-105
\* (cardName and boardId are carried along and never read by the lifecycle).
timerDataStopped(c, t, off) ==
  [active |-> FALSE, startTime |-> t, cardId |-> c, offline |-> off]
timerData(c, t, off) ==
  [active |-> TRUE, startTime |-> t, cardId |-> c, offline |-> off]

\* `timer && timer.active`
IsActive(timer) == timer /= None /\ timer[1].active

\* new Date() in session s: the clock of s2's machine is one second ahead.
Skew(s) == IF s = "s1" THEN 0 ELSE 1
Clock(s) == now + Skew(s)

\* Date values are milliseconds.
Ms(t) == t * 1000

\* remote: what became of the call's last fetch ("none" while not made);
\* calls: the endpoints the call has sent a fetch to, in order;
\* fault: which of the call's store calls rejected, "scan" for one inside
\* stopAnyRunningTimer, "op" for a t.set / t.remove of startTimer / stopTimer;
\* acked: whether the backend acknowledged the record stopTimer was given.
NoLoc == [card |-> 0, timerData |-> None, todo |-> <<>>, duration |-> 0,
          remote |-> "none", calls |-> <<>>, fault |-> "none", acked |-> FALSE]
NoRet == [kind |-> "none", timer |-> None, duration |-> 0, error |-> FALSE,
          remote |-> "none", calls |-> <<>>, fault |-> "none"]
NoBtn == [kind |-> "none", card |-> 0, cardTimer |-> None, hasOtherTimer |-> FALSE]

\* t.cards('id'): the board's cards, in board order.
BoardCards == [i \in 1..NumCards |-> i]

\* t.remove(<card>, 'shared', 'timezz_timer')
RemoveAllKeys(st, c) == [x \in Cards |-> None]
RemoveKeyLost(st, c) == st
RemoveKey(st, c) == [st EXCEPT ![c] = None]

\* t.set('card', 'shared', 'timezz_timer', value)
SetKeyLost(st, c, value) == st
SetKey(st, c, value) == [st EXCEPT ![c] = Some(value)]

ActiveCards == {c \in Cards : IsActive(store[c])}

\* ---------------------------------------------------------- card-buttons
\* isThisCardActive
isThisCardActive(timer, c) == IsActive(timer) /\ timer[1].cardId = c

\* The timer button the render produces: the frontend shows only the
\* 'Connect TimeZZ' button while no auth token is stored.
ButtonKind(v, hasToken, timer, c) ==
  IF v = "frontend" /\ ~hasToken THEN "login"
  ELSE IF isThisCardActive(timer, c) THEN "stop" ELSE "start"

\* TimerManager.hasRunningTimer of the frontend: the first card, in board
\* order, with an active timer (0: { hasTimer: false }).
hasRunningTimer(st) ==
  LET act == {c \in Cards : IsActive(st[c])}
  IN IF act = {} THEN 0 ELSE CHOOSE c \in act : \A d \in act : c <= d

\* hasOtherTimer of the frontend's card-buttons; the powerup has none.
hasOtherTimer(v, st, c) ==
  v = "frontend" /\ hasRunningTimer(st) /= 0 /\ hasRunningTimer(st) /= c

\* card-buttons for card c: reads the store and builds the button with its
\* closure (cardTimer, card, hasOtherTimer).  The reads change nothing and are
\* taken as one snapshot.
Render(s, c) ==
  /\ s \in live /\ pc[s] = "idle"
  /\ btn' = [btn EXCEPT ![s] =
       [kind |-> ButtonKind(variant, token[s], store[c], c),
        card |-> c, cardTimer |-> store[c],
        hasOtherTimer |-> hasOtherTimer(variant, store, c)]]
  /\ btn'[s] /= btn[s]
  /\ UNCHANGED <<variant, live, faulty, store, synced, token, now, pc, loc, ret, tally>>

\* The button is pressed: its callback starts, with the closure's values.
Press(s, kind) ==
  /\ s \in live /\ pc[s] = "idle" /\ btn[s].kind = kind

\* A test that counts the calls it makes: starts minus stops, for as long as
\* every call was made on one card, returned normally and had no fetch
\* answered; any other call ends the count.
NoTally == [valid |-> FALSE, card |-> 0, balance |-> 0]
NewTally == [valid |-> TRUE, card |-> 0, balance |-> 0]
Count(ty, c, r) ==
  IF /\ ty.valid /\ ty.card \in {0, c}
     /\ r.kind \in {"started", "stopped"} /\ r.remote /= "ok"
  THEN [valid |-> TRUE, card |-> c,
        balance |-> ty.balance + (IF r.kind = "started" THEN 1 ELSE -1)]
  ELSE NoTally

\* The finished call's value goes back to the callback; the locals die.
Return(s, r) ==
  /\ pc' = [pc EXCEPT ![s] = "done"]
  /\ loc' = [loc EXCEPT ![s] = NoLoc]
  /\ ret' = [ret EXCEPT ![s] = r]
  /\ tally' = Count(tally, btn[s].card, r)

\* The locals' log after a fetch to endpoint, and after a rejected store call.
CallWithRetry(l, endpoint) == [l EXCEPT !.calls = Append(Append(@, endpoint), endpoint)]
Call(l, endpoint) == [l EXCEPT !.calls = Append(@, endpoint)]
Fault(l, f) == [l EXCEPT !.fault = f]

\* The result r of a call, with the log l of the call.
Outcome(r, l) == [r EXCEPT !.calls = l.calls, !.fault = l.fault]

\* The backend's acknowledgement is of the record the call wrote: it holds
\* for the card while that record is the stored one.
Unsync(sy, c) == sy \ {c}
Acknowledged(sy, st, c, td, r) ==
  IF r = "ok" /\ st[c] = Some(td) THEN sy \cup {c} ELSE sy

\* What a call gives its callback: an exception, startTimer's timerData, or
\* stopTimer's { duration, error / !success }.
Raised(rem) == [NoRet EXCEPT !.kind = "raised", !.remote = rem]
Started(td, rem) == [NoRet EXCEPT !.kind = "started", !.timer = Some(td), !.remote = rem]
Stopped(d, err, rem) ==
  [NoRet EXCEPT !.kind = "stopped", !.duration = d, !.error = err, !.remote = rem]

\* The callback shows its alert and ends; the host renders the buttons anew
\* before one is pressed again.
Alert(s) ==
  /\ s \in live /\ pc[s] = "done"
  /\ pc' = [pc EXCEPT ![s] = "idle"]
  /\ ret' = [ret EXCEPT ![s] = NoRet]
  /\ btn' = [btn EXCEPT ![s] = NoBtn]
  /\ UNCHANGED <<variant, live, faulty, store, synced, token, now, loc, tally>>

\* The outcome of fetch: a 2xx answer, or a network error / non-2xx.
ApiOutcomes == {"ok", "fail"}

\* ------------------------------------------------------- frontend: Auth
\* 'Connect TimeZZ' -> the auth popup -> Auth.authenticateUser: on an answer
\* with an access_token, Utils.setAuthToken stores it; every failure ends in
\* { success: false } and stores nothing.
authenticateUser(s) ==
  /\ s \in live /\ variant = "frontend"
  /\ pc[s] = "idle" /\ btn[s].kind = "login"
  /\ \E r \in ApiOutcomes : r = "ok"
  /\ token' = [token EXCEPT ![s] = TRUE]
  /\ btn' = [btn EXCEPT ![s] = NoBtn]
  /\ UNCHANGED <<variant, live, faulty, store, synced, now, pc, loc, ret, tally>>

\* ------------------------------------------------- frontend: startTimer
\* The scan is over: startTimer builds timerData and awaits t.set.
F_ToSet(s) ==
  /\ pc' = [pc EXCEPT ![s] = "f_set"]
  /\ loc' = [loc EXCEPT ![s].todo = <<>>,
                        ![s].timerData = Some(timerData(loc[s].card, Clock(s), FALSE))]

\* 'Start Timer' / 'Switch Timer' callback -> startTimer -> stopAnyRunningTimer,
\* which awaits t.board and t.cards.
F_ClickStart(s) ==
  /\ variant = "frontend"
  /\ Press(s, "start")
  /\ pc' = [pc EXCEPT ![s] = "f_cards"]
  /\ loc' = [loc EXCEPT ![s] = [NoLoc EXCEPT !.card = btn[s].card]]
  /\ UNCHANGED <<variant, live, faulty, store, synced, token, now, btn, ret, tally>>

\* stopAnyRunningTimer's catch: console.warn, and startTimer goes on to
\* build timerData and await t.set.
stopAnyRunningTimer_catchSkipsSet(s) ==
  /\ pc' = [pc EXCEPT ![s] = "f_api"]
  /\ loc' = [loc EXCEPT ![s] =
       [Fault(loc[s], "scan") EXCEPT
          !.todo = <<>>,
          !.timerData = Some(timerData(loc[s].card, Clock(s), FALSE))]]
stopAnyRunningTimer_catch(s) ==
  /\ pc' = [pc EXCEPT ![s] = "f_set"]
  /\ loc' = [loc EXCEPT ![s] =
       [Fault(loc[s], "scan") EXCEPT
          !.todo = <<>>,
          !.timerData = Some(timerData(loc[s].card, Clock(s), FALSE))]]

\* stopAnyRunningTimer: cards = await t.cards('id').  A rejection, here and in
\* the loop, is swallowed by stopAnyRunningTimer's catch.
stopAnyRunningTimer_cards(s) ==
  /\ s \in live /\ pc[s] = "f_cards"
  /\ \/ /\ pc' = [pc EXCEPT ![s] = "f_scan"]
        /\ loc' = [loc EXCEPT ![s].todo = BoardCards]
     \/ /\ faulty
        /\ stopAnyRunningTimer_catch(s)
  /\ UNCHANGED <<variant, live, faulty, store, synced, token, now, btn, ret, tally>>

\* The loop moves to the next card, or ends.
F_ScanFirstOnly(s) == F_ToSet(s)
F_ScanNext(s) ==
  IF Len(loc[s].todo) > 1
  THEN /\ pc' = [pc EXCEPT ![s] = "f_scan"]
       /\ loc' = [loc EXCEPT ![s].todo = Tail(@)]
  ELSE F_ToSet(s)

\* `if (timer && timer.active)` of stopAnyRunningTimer
ScanRetiresNothing(timer) == FALSE
ScanRetires(timer) == IsActive(timer)

\* stopAnyRunningTimer: timer = await t.get(card.id, 'shared', 'timezz_timer')
stopAnyRunningTimer_get(s) ==
  /\ s \in live /\ pc[s] = "f_scan"
  /\ \/ IF ScanRetires(store[Head(loc[s].todo)])
        THEN /\ pc' = [pc EXCEPT ![s] = "f_scan_rm"]
             /\ UNCHANGED loc
        ELSE F_ScanNext(s)
     \/ /\ faulty
        /\ stopAnyRunningTimer_catch(s)
  /\ UNCHANGED <<variant, live, faulty, store, synced, token, now, btn, ret, tally>>

\* stopAnyRunningTimer: await t.remove(card.id, 'shared', 'timezz_timer')
stopAnyRunningTimer_remove(s) ==
  /\ s \in live /\ pc[s] = "f_scan_rm"
  /\ \/ /\ store' = RemoveKey(store, Head(loc[s].todo))
        /\ synced' = Unsync(synced, Head(loc[s].todo))
        /\ F_ScanNext(s)
     \/ /\ faulty
        /\ stopAnyRunningTimer_catch(s)
        /\ UNCHANGED <<store, synced>>
  /\ UNCHANGED <<variant, live, faulty, token, now, btn, ret, tally>>

\* startTimer: await t.set('card', 'shared', 'timezz_timer', timerData);
\* a rejection reaches the catch, which rethrows.
F_startTimer_set(s) ==
  /\ s \in live /\ pc[s] = "f_set"
  /\ \/ /\ store' = SetKey(store, loc[s].card, loc[s].timerData[1])
        /\ synced' = Unsync(synced, loc[s].card)
        /\ pc' = [pc EXCEPT ![s] = "f_api"]
        /\ UNCHANGED <<loc, ret, tally>>
     \/ /\ faulty
        /\ Return(s, Outcome(Raised("none"), Fault(loc[s], "op")))
        /\ UNCHANGED <<store, synced>>
  /\ UNCHANGED <<variant, live, faulty, token, now, btn>>

\* startTimer: await Utils.apiCall('/time/start', ...); return timerData.
\* The frontend's apiCall turns every failure into null, which is not read.
F_startTimer_api(s) ==
  /\ s \in live /\ pc[s] = "f_api"
  /\ \E r \in ApiOutcomes :
       /\ Return(s, Outcome(Started(loc[s].timerData[1], r),
                            Call(loc[s], "/time/start")))
       /\ synced' = Acknowledged(synced, store, loc[s].card, loc[s].timerData[1], r)
  /\ UNCHANGED <<variant, live, faulty, store, token, now, btn>>

\* -------------------------------------------------- frontend: stopTimer
\* Math.floor((endTime - new Date(timerData.startTime)) / 1000)
F_duration(end, start) == (Ms(end) - Ms(start)) \div 1000

\* 'Stop Timer' callback -> stopTimer(t, cardTimer): duration, then t.remove.
F_ClickStop(s) ==
  /\ variant = "frontend"
  /\ Press(s, "stop")
  /\ pc' = [pc EXCEPT ![s] = "f_rm"]
  /\ loc' = [loc EXCEPT ![s] =
       [NoLoc EXCEPT !.card = btn[s].card, !.timerData = btn[s].cardTimer,
                     !.duration = F_duration(Clock(s), btn[s].cardTimer[1].startTime),
                     !.acked = btn[s].card \in synced]]
  /\ UNCHANGED <<variant, live, faulty, store, synced, token, now, btn, ret, tally>>

\* stopTimer: await t.remove('card', 'shared', 'timezz_timer'), in the try
\* and, after a rejection, once more in the catch, which then takes the
\* duration again and returns { duration, success: false, error }.
F_stopTimer_remove(s) ==
  /\ s \in live
  /\ \/ /\ pc[s] = "f_rm"
        /\ \/ /\ store' = RemoveKey(store, loc[s].card)
              /\ synced' = Unsync(synced, loc[s].card)
              /\ pc' = [pc EXCEPT ![s] = "f_stop_api"]
              /\ UNCHANGED loc
           \/ /\ faulty
              /\ pc' = [pc EXCEPT ![s] = "f_catch"]
              /\ loc' = [loc EXCEPT ![s] = Fault(@, "op")]
              /\ UNCHANGED <<store, synced>>
        /\ UNCHANGED <<ret, tally>>
     \/ /\ pc[s] = "f_catch"
        /\ \/ /\ store' = RemoveKey(store, loc[s].card)
              /\ synced' = Unsync(synced, loc[s].card)
              /\ Return(s, Outcome(
                   Stopped(F_duration(Clock(s), loc[s].timerData[1].startTime),
                           TRUE, "none"), loc[s]))
           \/ /\ faulty
              /\ Return(s, Outcome(Raised("none"), loc[s]))
              /\ UNCHANGED <<store, synced>>
  /\ UNCHANGED <<variant, live, faulty, token, now, btn>>

\* stopTimer: await Utils.apiCall('/time/stop', 'POST', {}, t);
\* return { duration, success: true }
F_stopTimer_api(s) ==
  /\ s \in live /\ pc[s] = "f_stop_api"
  /\ \E r \in ApiOutcomes :
       Return(s, Outcome(Stopped(loc[s].duration, FALSE, r),
                         Call(loc[s], "/time/stop")))
  /\ UNCHANGED <<variant, live, faulty, store, synced, token, now, btn>>

\* -------------------------------------------------- powerup: startTimer
\* 'Start Timer' callback -> startTimer: timerData, then t.set.
P_ClickStart(s) ==
  /\ variant = "powerup"
  /\ Press(s, "start")
  /\ pc' = [pc EXCEPT ![s] = "p_set"]
  /\ loc' = [loc EXCEPT ![s] =
       [NoLoc EXCEPT !.card = btn[s].card,
                     !.timerData = Some(timerData(btn[s].card, Clock(s), FALSE))]]
  /\ UNCHANGED <<variant, live, faulty, store, synced, token, now, btn, ret, tally>>

\* startTimer's catch: a second timerData, with a new Date() and offline: true.
OfflineKeepsTimerData(s, td) == [td EXCEPT !.offline = TRUE]
OfflineUnmarked(s, td) == timerData(td.cardId, Clock(s), FALSE)
OfflineTimerData(s, td) == timerData(td.cardId, Clock(s), TRUE)

\* l: the locals, with the log of what threw.
P_ToCatch(s, l) ==
  /\ pc' = [pc EXCEPT ![s] = "p_catch"]
  /\ loc' = [loc EXCEPT ![s] =
       [l EXCEPT !.timerData = Some(OfflineTimerData(s, l.timerData[1]))]]

\* startTimer: await t.set('card', 'shared', 'timezz_timer', timerData)
P_startTimer_set(s) ==
  /\ s \in live /\ pc[s] = "p_set"
  /\ \/ /\ store' = SetKey(store, loc[s].card, loc[s].timerData[1])
        /\ synced' = Unsync(synced, loc[s].card)
        /\ pc' = [pc EXCEPT ![s] = "p_api"]
        /\ UNCHANGED loc
     \/ /\ faulty
        /\ P_ToCatch(s, Fault(loc[s], "op"))
        /\ UNCHANGED <<store, synced>>
  /\ UNCHANGED <<variant, live, faulty, token, now, btn, ret, tally>>

\* startTimer: await Utils.apiCall('/time/start', ...); return timerData.
\* The powerup's apiCall throws on a network error and on a non-2xx answer.
P_startTimer_api(s) ==
  /\ s \in live /\ pc[s] = "p_api"
  /\ \E r \in ApiOutcomes :
       /\ IF r = "ok"
          THEN Return(s, Outcome(Started(loc[s].timerData[1], r),
                                 Call(loc[s], "/time/start")))
          ELSE /\ P_ToCatch(s, [Call(loc[s], "/time/start") EXCEPT !.remote = r])
               /\ UNCHANGED <<ret, tally>>
       /\ synced' = Acknowledged(synced, store, loc[s].card, loc[s].timerData[1], r)
  /\ UNCHANGED <<variant, live, faulty, store, token, now, btn>>

\* startTimer's catch: await t.set(..., timerData); return timerData
P_startTimer_catchRollback(s) ==
  /\ s \in live /\ pc[s] = "p_catch"
  /\ store' = RemoveKey(store, loc[s].card)
  /\ synced' = Unsync(synced, loc[s].card)
  /\ Return(s, Outcome(Started(loc[s].timerData[1], loc[s].remote), loc[s]))
  /\ UNCHANGED <<variant, live, faulty, token, now, btn>>
P_startTimer_catch(s) ==
  /\ s \in live /\ pc[s] = "p_catch"
  /\ \/ /\ store' = SetKey(store, loc[s].card, loc[s].timerData[1])
        /\ synced' = Unsync(synced, loc[s].card)
        /\ Return(s, Outcome(Started(loc[s].timerData[1], loc[s].remote), loc[s]))
     \/ /\ faulty
        /\ Return(s, Outcome(Raised(loc[s].remote), Fault(loc[s], "op")))
        /\ UNCHANGED <<store, synced>>
  /\ UNCHANGED <<variant, live, faulty, token, now, btn>>

\* --------------------------------------------------- powerup: stopTimer
\* (endTime - new Date(timerData.startTime)) / 1000, on whole seconds
P_duration(end, start) == (Ms(end) - Ms(start)) \div 1000

\* 'Stop Timer' callback -> stopTimer(t, timer): duration, then t.remove.
P_ClickStop(s) ==
  /\ variant = "powerup"
  /\ Press(s, "stop")
  /\ pc' = [pc EXCEPT ![s] = "p_rm"]
  /\ loc' = [loc EXCEPT ![s] =
       [NoLoc EXCEPT !.card = btn[s].card, !.timerData = btn[s].cardTimer,
                     !.duration = P_duration(Clock(s), btn[s].cardTimer[1].startTime),
                     !.acked = btn[s].card \in synced]]
  /\ UNCHANGED <<variant, live, faulty, store, synced, token, now, btn, ret, tally>>

\* stopTimer: await t.remove('card', 'shared', 'timezz_timer')
P_stopTimer_remove(s) ==
  /\ s \in live /\ pc[s] = "p_rm"
  /\ \/ /\ store' = RemoveKey(store, loc[s].card)
        /\ synced' = Unsync(synced, loc[s].card)
        /\ pc' = [pc EXCEPT ![s] = "p_stop_api"]
        /\ UNCHANGED loc
     \/ /\ faulty
        /\ pc' = [pc EXCEPT ![s] = "p_stop_catch"]
        /\ loc' = [loc EXCEPT ![s] = Fault(@, "op")]
        /\ UNCHANGED <<store, synced>>
  /\ UNCHANGED <<variant, live, faulty, token, now, btn, ret, tally>>

\* `if (!timerData.offline)`: the endpoint stopTimer posts to.
StopEndpoint(td) == IF ~td.offline THEN "/time/stop" ELSE "/time/entries"

\* stopTimer: await Utils.apiCall('/time/stop' or, for an offline timer,
\* '/time/entries', 'POST', ...); return { duration }
P_stopTimer_api(s) ==
  /\ s \in live /\ pc[s] = "p_stop_api"
  /\ \E r \in ApiOutcomes :
       LET l == Call(loc[s], StopEndpoint(loc[s].timerData[1]))
       IN IF r = "ok"
          THEN Return(s, Outcome(Stopped(loc[s].duration, FALSE, r), l))
          ELSE /\ pc' = [pc EXCEPT ![s] = "p_stop_catch"]
               /\ loc' = [loc EXCEPT ![s] = [l EXCEPT !.remote = r]]
               /\ UNCHANGED <<ret, tally>>
  /\ UNCHANGED <<variant, live, faulty, store, synced, token, now, btn>>

\* stopTimer's catch: await t.remove(...); return { duration: 0, error: true }
P_stopTimer_catch(s) ==
  /\ s \in live /\ pc[s] = "p_stop_catch"
  /\ \/ /\ store' = RemoveKey(store, loc[s].card)
        /\ synced' = Unsync(synced, loc[s].card)
        /\ Return(s, Outcome(Stopped(0, TRUE, loc[s].remote), loc[s]))
     \/ /\ faulty
        /\ Return(s, Outcome(Raised(loc[s].remote), Fault(loc[s], "op")))
        /\ UNCHANGED <<store, synced>>
  /\ UNCHANGED <<variant, live, faulty, token, now, btn>>

\* -------------------------------------------------------------- the clock
Tick ==
  /\ now < MaxTime
  /\ now' = now + 1
  /\ UNCHANGED <<variant, live, faulty, store, synced, token, pc, btn, loc, ret, tally>>

\* ---------------------------------------------------------- specification
\* The board as the plugin finds it: no timer stored, no session signed in,
\* every session between callbacks.
InitBoard(vs, lv, fl) ==
  /\ synced = {}
  /\ variant \in vs
  /\ live = lv
  /\ faulty = fl
  /\ store = [c \in Cards |-> None]
  /\ token = [s \in Sessions |-> FALSE]
  /\ now = 0
  /\ pc = [s \in Sessions |-> "idle"]
  /\ btn = [s \in Sessions |-> NoBtn]
  /\ loc = [s \in Sessions |-> NoLoc]
  /\ ret = [s \in Sessions |-> NoRet]

\* No test is counting.
InitWith(vs, lv, fl) == InitBoard(vs, lv, fl) /\ tally = NoTally

\* The host and the user: time passes, card backs are opened, alerts shown.
Host ==
  \/ Tick
  \/ \E s \in Sessions, c \in Cards : Render(s, c)
  \/ \E s \in Sessions : Alert(s)

\* src/frontend/trello-powerup.js
Frontend ==
  \/ \E s \in Sessions : authenticateUser(s)
  \/ \E s \in Sessions : F_ClickStart(s)
  \/ \E s \in Sessions : stopAnyRunningTimer_cards(s)
  \/ \E s \in Sessions : stopAnyRunningTimer_get(s)
  \/ \E s \in Sessions : stopAnyRunningTimer_remove(s)
  \/ \E s \in Sessions : F_startTimer_set(s)
  \/ \E s \in Sessions : F_startTimer_api(s)
  \/ \E s \in Sessions : F_ClickStop(s)
  \/ \E s \in Sessions : F_stopTimer_remove(s)
  \/ \E s \in Sessions : F_stopTimer_api(s)

\* src/trello-powerup/trello-powerup.js
Powerup ==
  \/ \E s \in Sessions : P_ClickStart(s)
  \/ \E s \in Sessions : P_startTimer_set(s)
  \/ \E s \in Sessions : P_startTimer_api(s)
  \/ \E s \in Sessions : P_startTimer_catch(s)
  \/ \E s \in Sessions : P_ClickStop(s)
  \/ \E s \in Sessions : P_stopTimer_remove(s)
  \/ \E s \in Sessions : P_stopTimer_api(s)
  \/ \E s \in Sessions : P_stopTimer_catch(s)

Next == Host \/ Frontend \/ Powerup
NextFrontend == Host \/ Frontend
NextPowerup == Host \/ Powerup

\* Two sessions race on a board that runs either file; the store works.
Init == InitWith(Variants, Sessions, FALSE)
Spec == Init /\ [][Next]_vars

\* One session, one call after another, either file; the store works.
InitSeq == InitWith(Variants, {"s1"}, FALSE)
SpecSeq == InitSeq /\ [][Next]_vars

\* Two sessions race on a board that runs the frontend file; the store works.
InitFrontend == InitWith({"frontend"}, Sessions, FALSE)
SpecFrontend == InitFrontend /\ [][NextFrontend]_vars

\* One session, either file; the host's store calls may reject.
InitFaulty == InitWith(Variants, {"s1"}, TRUE)
SpecFaulty == InitFaulty /\ [][Next]_vars

\* One session, either file, the store works, and a test counts its calls.
InitCount == InitBoard(Variants, {"s1"}, FALSE) /\ tally = NewTally
SpecCount == InitCount /\ [][Next]_vars

\* The awaits of session s that the host settles: its store calls (t.cards,
\* t.get, t.set, t.remove) and the alert.  The awaits on fetch are not among
\* them: neither apiCall sets a timeout or an abort signal, so a fetch
\* settles when the backend answers or the network fails, and not before.
HostSettles(s) ==
  \/ stopAnyRunningTimer_cards(s)
  \/ stopAnyRunningTimer_get(s)
  \/ stopAnyRunningTimer_remove(s)
  \/ F_startTimer_set(s)
  \/ F_stopTimer_remove(s)
  \/ P_startTimer_set(s)
  \/ P_startTimer_catch(s)
  \/ P_stopTimer_remove(s)
  \/ P_stopTimer_catch(s)
  \/ Alert(s)

\* One session, either file, the store works and always answers; the
\* backend may never answer.
SpecLive ==
  /\ InitSeq /\ [][Next]_vars
  /\ \A s \in Sessions : WF_vars(HostSettles(s))

\* One session on a board that runs either file, or two sessions racing on a
\* board that runs the frontend file; the store works.
InitEither == InitSeq \/ InitFrontend
SpecEither == InitEither /\ [][Next]_vars

\* ------------------------------------------------------------------ claims
\* The steps of a running startTimer / stopTimer, by the await they are at.
StartPcs == {"f_cards", "f_scan", "f_scan_rm", "f_set", "f_api", "p_set", "p_api", "p_catch"}
StopPcs == {"f_rm", "f_catch", "f_stop_api", "p_rm", "p_stop_api", "p_stop_catch"}

\* startTimer / stopTimer has returned to the callback of session s.
StartReturned(s) == pc[s] = "done" /\ btn[s].kind = "start"
StopReturned(s) == pc[s] = "done" /\ btn[s].kind = "stop"

\* C1: frontend, one session, calls one after another, the store working:
\* in every reachable state, the states between the store operations of one
\* startTimer included, at most one card holds an active timezz_timer.
C1_AtMostOneActive ==
  variant = "frontend" => Cardinality(ActiveCards) <= 1

\* C1 witness: inside a switch, the scan has read another card's active
\* record and has not removed it yet.
C1_Witness ==
  /\ variant = "frontend"
  /\ pc["s1"] = "f_scan_rm"
  /\ Head(loc["s1"].todo) /= loc["s1"].card
  /\ ActiveCards = {Head(loc["s1"].todo)}

\* C2: frontend, one session: when startTimer has returned for card B, B
\* holds the one active record and no other card holds any record.
C2_SwitchLeavesOnlyNew ==
  \A s \in live :
    (variant = "frontend" /\ StartReturned(s) /\ ret[s].kind = "started") =>
      /\ ActiveCards = {btn[s].card}
      /\ \A c \in Cards \ {btn[s].card} : store[c] = None

\* C2 witness: a start that was rendered as 'Switch Timer' (another card's
\* timer was running) has returned.
C2_Witness ==
  /\ variant = "frontend"
  /\ StartReturned("s1") /\ ret["s1"].kind = "started"
  /\ btn["s1"].hasOtherTimer

\* C3 (as claimed): powerup, one session: after startTimer for card B has
\* returned, no other card A holds an active record.
C3_PowerupRetiresOld ==
  \A s \in live :
    (variant = "powerup" /\ StartReturned(s) /\ ret[s].kind = "started") =>
      \A c \in Cards \ {btn[s].card} : ~IsActive(store[c])

\* C4: frontend, two sessions: the scan leaves each session at most one
\* active record of its own, so the board holds at most as many active
\* records as there are sessions; the bound of two is reached (witness).
C4_OneActivePerSession ==
  Cardinality(ActiveCards) <= Cardinality(live)

\* C4 witness: two different cards hold an active record at once.
C4_Witness ==
  \E a, b \in Cards : a /= b /\ IsActive(store[a]) /\ IsActive(store[b])

\* C5 (as claimed): a startTimer for card A that finds A's record active
\* leaves that record as it is.  Checked on the scan of the frontend, where
\* the call has read its own card's record as active and is about to act.
C5_RestartIsNoOp ==
  [][\A s \in live :
       (pc[s] = "f_scan_rm" /\ Head(loc[s].todo) = loc[s].card /\ pc'[s] /= pc[s]) =>
         store'[loc[s].card] = store[loc[s].card]]_vars

\* C6 (as claimed): one session: once a startTimer has written its record,
\* the rest of the call, a failed remote start included, leaves the
\* persisted startTime as written.
C6_StartedAtImmutable ==
  [][\A s \in live :
       (pc[s] \in {"f_api", "p_api", "p_catch"} /\ IsActive(store[loc[s].card])) =>
         /\ store'[loc[s].card] /= None
         /\ store'[loc[s].card][1].startTime = store[loc[s].card][1].startTime]_vars

\* C7 (as claimed): a stopTimer that comes to its first store operation while
\* the card's record is absent or not active fails: it raises, removes
\* nothing and calls nothing.
C7_StopNotActiveFails ==
  [][\A s \in live :
       (pc[s] \in {"f_rm", "p_rm"} /\ ~IsActive(store[loc[s].card]) /\ pc'[s] /= pc[s]) =>
         (pc'[s] = "done" /\ ret'[s].kind = "raised" /\ store' = store)]_vars

\* C8: every step of a stopTimer for card s leaves the timezz_timer of every
\* other card as it was, also while another card's timer is active (the
\* powerup keeps several, two frontend sessions can race to two).
C8_StopFrame ==
  [][\A s \in live :
       (pc[s] \in StopPcs /\ pc'[s] /= pc[s]) =>
         \A c \in Cards \ {loc[s].card} : store'[c] = store[c]]_vars

\* C8 witness: a stopTimer has returned while another card still holds an
\* active record.
C8_Witness ==
  \E s \in live :
    /\ StopReturned(s) /\ ret[s].kind = "stopped"
    /\ \E c \in Cards \ {btn[s].card} : IsActive(store[c])

\* C9: one session, the store working: once stopTimer is past its t.remove,
\* at the remote call, in the catch after a failed remote call, and when it
\* has returned, the card has no record.
C9_StopRemovesLocal ==
  \A s \in live :
    /\ pc[s] \in {"f_stop_api", "p_stop_api", "p_stop_catch"} => store[loc[s].card] = None
    /\ StopReturned(s) => store[btn[s].card] = None

\* C9 witness: a stopTimer whose remote call failed has returned.
C9_Witness ==
  StopReturned("s1") /\ ret["s1"].kind = "stopped" /\ ret["s1"].remote = "fail"

\* C10: one session, the store working: a startTimer whose remote call
\* failed has not raised, and returns an active record that is the record
\* persisted for the card.
C10_StartSurvivesRemoteFailure ==
  \A s \in live :
    (StartReturned(s) /\ ret[s].remote = "fail") =>
      /\ ret[s].kind = "started"
      /\ ret[s].timer[1].active
      /\ store[btn[s].card] = ret[s].timer

\* C10 witness: the powerup's startTimer has returned through its catch.
C10_Witness ==
  /\ variant = "powerup"
  /\ StartReturned("s1") /\ ret["s1"].remote = "fail"
  /\ ret["s1"].kind = "started" /\ ret["s1"].timer[1].offline

\* C11: a stopTimer whose remote call failed has not raised, and its result
\* tells the callback so (powerup: error: true; frontend: success: false).
C11_RemoteFailureIsFlagged ==
  \A s \in live :
    (StopReturned(s) /\ ret[s].remote = "fail") =>
      (ret[s].kind = "stopped" /\ ret[s].error)

\* C12: a stopTimer whose remote call failed returns the duration it took
\* before its t.remove, the seconds from the record's startTime to the stop,
\* and not a placeholder.
C12_DurationSurvivesRemoteFailure ==
  [][\A s \in live :
       (/\ pc[s] \in StopPcs /\ pc'[s] = "done"
        /\ ret'[s].kind = "stopped" /\ ret'[s].remote = "fail") =>
         ret'[s].duration = loc[s].duration]_vars

\* C13: the one fetch of stopTimer goes to /time/stop when the backend
\* acknowledged the start of the record being stopped, and to /time/entries
\* when it did not.
C13_EndpointBySyncState ==
  [][\A s \in live :
       (pc[s] \in {"f_stop_api", "p_stop_api"} /\ pc'[s] /= pc[s]) =>
         LET sent == IF pc'[s] = "done" THEN ret'[s].calls ELSE loc'[s].calls
         IN sent = << IF loc[s].acked THEN "/time/stop" ELSE "/time/entries" >>]_vars

\* C14: the duration stopTimer returns is never negative, also when the
\* record's startTime is later than the clock of the session that stops it.
C14_DurationNotNegative ==
  \A s \in live :
    (StopReturned(s) /\ ret[s].kind = "stopped") => ret[s].duration >= 0

C16_StoreFailurePropagates ==
  \A s \in live :
    (pc[s] = "done" /\ ret[s].fault = "op") => ret[s].kind = "raised"

\* C17: with the store always answering, every startTimer and stopTimer that
\* was begun returns to its callback, whether or not the backend answers.
C17_CallsComplete ==
  \A s \in Sessions : (pc[s] \in StartPcs \cup StopPcs) ~> (pc[s] = "done")

\* C18: a session that has no auth token stored and opens a card is given
\* the timer button of the card (Start Timer or Stop Timer).
C18_NoTokenStillTracks ==
  \A s \in live :
    (~token[s] /\ btn[s].kind /= "none") => btn[s].kind \in {"start", "stop"}

\* C19: one session: a startTimer that was begun while another card held an
\* active timer (a switch) has, when it returns, sent a fetch to /time/stop
\* or /time/entries before its fetch to /time/start.
C19_SwitchStopsRemotely ==
  \A s \in live :
    (StartReturned(s) /\ ret[s].kind = "started" /\ btn[s].hasOtherTimer) =>
      \E i, j \in 1..Len(ret[s].calls) :
        /\ i < j
        /\ ret[s].calls[i] \in {"/time/stop", "/time/entries"}
        /\ ret[s].calls[j] = "/time/start"

\* C20: one session, store calls may reject: a startTimer in whose scan a
\* store call rejected, and in which no other store call did, has returned
\* without raising: it returns a record that is the one stored for its card,
\* and it has made its one fetch, to /time/start.
C20_ScanFailureSwallowed ==
  \A s \in live :
    (StartReturned(s) /\ ret[s].fault = "scan") =>
      /\ ret[s].kind = "started"
      /\ ret[s].timer[1].active
      /\ store[btn[s].card] = ret[s].timer
      /\ ret[s].calls = << "/time/start" >>

\* C20 witness: a switch whose scan failed has returned; the other card's
\* record was not retired and is still active.
C20_Witness ==
  /\ StartReturned("s1") /\ ret["s1"].fault = "scan"
  /\ ret["s1"].kind = "started"
  /\ btn["s1"].hasOtherTimer
  /\ Cardinality(ActiveCards) = 2

\* C21: one session, the store working: a startTimer has sent no more than
\* one fetch while it runs and exactly one, to /time/start, when it returns,
\* a switch included; a stopTimer has sent at most one fetch, while it runs
\* (in its catch after a failed fetch too) and when it returns.
C21_OneFetchPerCall ==
  \A s \in live :
    /\ pc[s] \in StartPcs \cup StopPcs => Len(loc[s].calls) <= 1
    /\ StartReturned(s) => ret[s].calls = << "/time/start" >>
    /\ StopReturned(s) => Len(ret[s].calls) <= 1

\* C21 witness: a switch whose fetch failed has returned.
C21_Witness ==
  /\ StartReturned("s1") /\ btn["s1"].hasOtherTimer
  /\ ret["s1"].remote = "fail"
  /\ ret["s1"].calls = << "/time/start" >>

\* C22: powerup, one session, the store working: when startTimer has
\* returned, the record stored for its card carries offline: true exactly
\* when the fetch to /time/start was not answered with 2xx, and the backend
\* has acknowledged the record exactly when it carries no offline mark.
C22_OfflineIffUnacknowledged ==
  \A s \in live :
    (variant = "powerup" /\ StartReturned(s) /\ ret[s].kind = "started") =>
      /\ store[btn[s].card] /= None
      /\ store[btn[s].card][1].offline <=> ret[s].remote /= "ok"
      /\ store[btn[s].card][1].offline <=> btn[s].card \notin synced

\* C22 witness: a start that the backend did not acknowledge has returned,
\* and the stored record is marked offline.
C22_Witness ==
  /\ variant = "powerup" /\ StartReturned("s1")
  /\ ret["s1"].calls = << "/time/start" >> /\ ret["s1"].remote = "fail"
  /\ store[btn["s1"].card] /= None
  /\ store[btn["s1"].card][1].offline
  /\ btn["s1"].card \notin synced

\* C23: in every reachable state, inside the calls and with two sessions
\* racing included, every stored timezz_timer value has active = true and
\* lies under the card its cardId names; a stopped timer is an absent key.
C23_OnlyActiveRecords ==
  \A c \in Cards :
    store[c] /= None => (store[c][1].active /\ store[c][1].cardId = c)

\* C23 witness: a stopTimer has returned and left its card without a key
\* while another card holds a record.
C23_Witness ==
  /\ StopReturned("s1") /\ ret["s1"].kind = "stopped"
  /\ store[btn["s1"].card] = None
  /\ \E c \in Cards : store[c] /= None

\* C24: two sessions: when the t.remove of stopTimer succeeds, the value it
\* removes is the record the Stop Timer button was rendered with, the one
\* the reported duration was computed from, so that the fetch to /time/stop
\* that follows is for a record that was still active.
C24_StopRemovesRenderedRecord ==
  [][\A s \in live :
       (pc[s] \in {"f_rm", "p_rm"} /\ pc'[s] \in {"f_stop_api", "p_stop_api"}) =>
         store[loc[s].card] = loc[s].timerData]_vars

====
